---- MODULE Spec2Model ----
(***************************************************************************)
(* Supplemental Kernel Commandline (SKC): the in-place parser skc_init()   *)
(* of src/skc.c, the node arena it builds, and the tree queries over it.   *)
(*                                                                         *)
(* Memory model.  A C string buffer is a sequence of characters; the C     *)
(* offset p (0-based, relative to the start of the buffer) is element      *)
(* p + 1 of the sequence.  A character is a one-character string, except   *)
(* the terminator NUL, the newline NL and the tabulator TAB.  The buffer   *)
(* handed to skc_init is the text, its terminating NUL, and the bytes that *)
(* happen to follow it in memory (the "tail"), which the parser reads only *)
(* when it runs past the terminator.  Pointers into the node array are     *)
(* node indices; the NULL pointer is NULLP.                                *)
(***************************************************************************)
EXTENDS Integers, Sequences, FiniteSets, TLC

\* ---------------------------------------------------------------- constants

SKC_KEY == 0
SKC_VALUE == 32768
SKC_DATA_MAX == 32767
\* The node array.  The source has 512 entries; the model keeps the code's
\* comparisons against SKC_NODE_MAX and scales the capacity down so that a
\* bounded text can fill the array.
SKC_NODE_MAX == 5
SKC_DEPTH_MAX == 16

EINVAL == 22
ENOMEM == 12
EBUSY == 16
ERANGE == 34

NULLP == -1
\* Not a value of the program: the process was killed by a wild read
\* (strcmp() or strlen() of the NULL that skc_node_get_data() returns, or a
\* read of skc_nodes[SKC_NODE_MAX]).
KILLED == -1000

NUL == "NUL"
NL == "NL"
TAB == "TAB"

\* ------------------------------------------------------------- <ctype.h>

Alnum ==
  { "a", "b", "c", "d", "e", "f", "g", "h", "i", "j", "k", "l", "m",
    "n", "o", "p", "q", "r", "s", "t", "u", "v", "w", "x", "y", "z",
    "A", "B", "C", "D", "E", "F", "G", "H", "I", "J", "K", "L", "M",
    "N", "O", "P", "Q", "R", "S", "T", "U", "V", "W", "X", "Y", "Z",
    "0", "1", "2", "3", "4", "5", "6", "7", "8", "9" }

isalnum(c) == c \in Alnum

isspace(c) == c \in { " ", NL, TAB }

\* r = f(...); then K: the result of a call, under the name K gives it.
Bind(v, K(_)) == K(v)

\* ------------------------------------------------------------ <string.h>

\* *p
Ch(m, p) == m[p + 1]

\* *p = c
Poke(m, p, c) == [m EXCEPT ![p + 1] = c]

\* The distance from p to the first NUL at or after p.
strlen(m, p) ==
  (CHOOSE e \in p..(Len(m) - 1) :
     Ch(m, e) = NUL /\ \A j \in p..(e - 1) : Ch(m, j) # NUL) - p

\* The string at p, without its terminator.
CStr(m, p) == SubSeq(m, p + 1, p + strlen(m, p))

\* strchr(p, c): c may be NUL, and then the terminator itself is found.
\* The scan stops at the first c or NUL at or after p.
strchr(m, p, c) ==
  Bind(CHOOSE e \in p..(Len(m) - 1) :
         Ch(m, e) \in { c, NUL } /\ \A j \in p..(e - 1) : Ch(m, j) \notin { c, NUL },
       LAMBDA e : IF Ch(m, e) = c THEN e ELSE NULLP)

\* The scan stops at the first NUL or character of accept at or after p.
strpbrk(m, p, accept) ==
  Bind(CHOOSE e \in p..(Len(m) - 1) :
         /\ Ch(m, e) = NUL \/ Ch(m, e) \in accept
         /\ \A j \in p..(e - 1) : Ch(m, j) # NUL /\ Ch(m, j) \notin accept,
       LAMBDA e : IF Ch(m, e) = NUL THEN NULLP ELSE e)

\* The first character at or after p that is not a space.
skip_spaces(m, p) ==
  CHOOSE e \in p..(Len(m) - 1) :
    ~isspace(Ch(m, e)) /\ \A j \in p..(e - 1) : isspace(Ch(m, j))

\* The loop of strim(): end moves down over trailing spaces, to s - 1 at most.
RECURSIVE strim_end(_, _, _)
strim_end(m, s, end) ==
  IF end >= s /\ isspace(Ch(m, end)) THEN strim_end(m, s, end - 1) ELSE end

\* strim(s) writes one terminator and returns the first non-space of s.
strim(m, s) ==
  LET size == strlen(m, s)
  IN IF size = 0 THEN [m |-> m, p |-> s]
     ELSE LET end == strim_end(m, s, s + size - 1)
              m1 == Poke(m, end + 1, NUL)
          IN [m |-> m1, p |-> skip_spaces(m1, s)]

\* ------------------------------------------- node accessors (skc.h, skc.c)

\* The parser works on a record s:
\*   nodes  skc_nodes[]       num   skc_node_num     lp  last_parent
\*   m      the memory at skc_data (text, NUL, tail)
\*   size   skc_data_size
\*   msg, pos   what skc_parse_error() printed last
\*   oob    the scan has moved past the terminating NUL of the text

ZeroNode == [next |-> 0, child |-> 0, parent |-> 0, data |-> 0]

skc_node_is_value(nodes, n) == (nodes[n].data \div SKC_VALUE) % 2 = 1

skc_node_is_key(nodes, n) == ~skc_node_is_value(nodes, n)

skc_node_get_parent(nodes, n) ==
  IF nodes[n].parent = SKC_NODE_MAX THEN NULLP ELSE nodes[n].parent

skc_node_get_child(nodes, n) ==
  IF nodes[n].child # 0 THEN nodes[n].child ELSE NULLP

skc_node_get_next(nodes, n) ==
  IF nodes[n].next # 0 THEN nodes[n].next ELSE NULLP

\* NULL (with a warning) when the offset is outside the buffer.
skc_node_get_data(nodes, size, n) ==
  LET offset == nodes[n].data % SKC_VALUE
  IN IF offset >= size THEN NULLP ELSE offset

skc_node_is_leaf(nodes, n) ==
  /\ skc_node_is_key(nodes, n)
  /\ \/ nodes[n].child = 0
     \/ skc_node_is_value(nodes, nodes[n].child)

\* --------------------------------------------------- tree build (skc.c)

skc_parse_error(s, msg, p) ==
  [s |-> [s EXCEPT !.msg = msg, !.pos = p], ret |-> -EINVAL]

skc_add_node(s, data, flag) ==
  IF s.num = SKC_NODE_MAX THEN [s |-> s, node |-> NULLP]
  ELSE LET n == s.num
           offset == data
           s1 == [s EXCEPT !.num = n + 1, !.nodes[n].data = offset % 65536]
       IN IF offset >= SKC_DATA_MAX THEN [s |-> s1, node |-> NULLP]
          ELSE [s |-> [s1 EXCEPT !.nodes[n].data = (offset % 65536) + flag,
                                 !.nodes[n].child = 0,
                                 !.nodes[n].next = 0],
                node |-> n]

\* KILLED when the chain leads to skc_nodes[SKC_NODE_MAX] (a brace mark).
RECURSIVE skc_last_sibling(_, _)
skc_last_sibling(nodes, n) ==
  IF nodes[n].next = 0 THEN n
  ELSE IF nodes[n].next >= SKC_NODE_MAX THEN KILLED
  ELSE skc_last_sibling(nodes, nodes[n].next)

\* sib = skc_last_sibling(first); sib->next = skc_node_index(node);
link_sibling(s, first, node) ==
  Bind(skc_last_sibling(s.nodes, first), LAMBDA sib :
    IF sib = KILLED THEN [s |-> s, node |-> KILLED]
    ELSE [s |-> [s EXCEPT !.nodes[sib].next = node], node |-> node])

skc_add_sibling(s, data, flag) ==
  Bind(skc_add_node(s, data, flag), LAMBDA r :
    IF r.node = NULLP THEN r
    ELSE IF r.s.lp = NULLP
    THEN link_sibling([r.s EXCEPT !.nodes[r.node].parent = SKC_NODE_MAX],
                      0, r.node)
    ELSE IF r.s.nodes[r.s.lp].child = 0
    THEN [s |-> [r.s EXCEPT !.nodes[r.node].parent = r.s.lp,
                            !.nodes[r.s.lp].child = r.node],
          node |-> r.node]
    ELSE link_sibling([r.s EXCEPT !.nodes[r.node].parent = r.s.lp],
                      r.s.nodes[r.s.lp].child, r.node))

skc_add_child(s, data, flag) ==
  Bind(skc_add_sibling(s, data, flag), LAMBDA r :
    IF r.node >= 0 THEN [s |-> [r.s EXCEPT !.lp = r.node], node |-> r.node]
    ELSE r)

RECURSIVE valid_keyword_rest(_, _)
valid_keyword_rest(m, key) ==
  IF isalnum(Ch(m, key)) \/ Ch(m, key) = "-" \/ Ch(m, key) = "_"
  THEN valid_keyword_rest(m, key + 1)
  ELSE Ch(m, key) = NUL

skc_valid_keyword(m, key) ==
  IF Ch(m, key) = NUL THEN FALSE ELSE valid_keyword_rest(m, key)

\* The search starts at p + 1.
RECURSIVE find_ending_quotes(_, _, _)
find_ending_quotes(m, p, quotes) ==
  Bind(strchr(m, p + 1, quotes), LAMBDA r :
    IF r = NULLP THEN NULLP
    ELSE IF Ch(m, r - 1) = "\\" THEN find_ending_quotes(m, r, quotes)
    ELSE r)

skip_comment(m, p) ==
  Bind(strchr(m, p, NL), LAMBDA r :
    IF r = NULLP THEN p + strlen(m, p) ELSE r + 1)

\* Mark the last key as open brace.
__skc_open_brace(s) ==
  [s |-> [s EXCEPT !.nodes[s.lp].next = SKC_NODE_MAX], ret |-> 0]

\* The do-while of __skc_close_brace(): the nearest marked ancestor, or NULL.
RECURSIVE close_brace_up(_, _)
close_brace_up(nodes, node) ==
  Bind(skc_node_get_parent(nodes, node), LAMBDA up :
    IF up = NULLP \/ nodes[up].next = SKC_NODE_MAX THEN up
    ELSE close_brace_up(nodes, up))

__skc_close_brace(s, p) ==
  IF s.lp = NULLP \/ s.nodes[s.lp].next # SKC_NODE_MAX
  THEN skc_parse_error(s, "Unexpected closing brace", p)
  ELSE [s |-> [s EXCEPT !.nodes[s.lp].next = 0,
                        !.lp = close_brace_up(
                                 [s.nodes EXCEPT ![s.lp].next = 0], s.lp)],
        ret |-> 0]

\* ------------------------------------------------------- values (skc.c)

ValueDelims == { ",", ";", NL, "#", "}" }

\* while (*v == '#') { v = skip_comment(v); v = skip_spaces(v); }
RECURSIVE skip_comments(_, _)
skip_comments(m, v) ==
  IF Ch(m, v) = "#" THEN skip_comments(m, skip_spaces(m, skip_comment(m, v)))
  ELSE v

\* __skc_parse_value() returns [s, ret, c, v, n]: the delimiter c (ret = 0)
\* or an error (ret < 0), the value string v and the position n after the
\* delimiter.  It adds no node.

\* Its tail: a '#' delimiter skips the comment and the delimiter becomes the
\* character after it, which is not consumed.
parse_value_end(s, c, v, p) ==
  IF c = "#"
  THEN Bind(skip_comment(s.m, p), LAMBDA p1 :
         [s |-> s, ret |-> 0, c |-> Ch(s.m, p1), v |-> v, n |-> p1])
  ELSE [s |-> s, ret |-> 0, c |-> c, v |-> v, n |-> p]

\* return skc_parse_error(...), r being what skc_parse_error returned.
parse_value_fail(r, v) ==
  [s |-> r.s, ret |-> r.ret, c |-> NUL, v |-> v, n |-> v]

\* if (*v == '"' || *v == '\'') { ... }: v is at the opening quote and p
\* is what find_ending_quotes() returned.
parse_value_quoted(s, v, p) ==
  IF p = NULLP
  THEN parse_value_fail(skc_parse_error(s, "No closing quotes", v + 1), v)
  ELSE Bind(skip_spaces(Poke(s.m, p, NUL), p + 1), LAMBDA p1 :
         LET m1 == Poke(s.m, p, NUL)
             c == Ch(m1, p1)
         IN IF c \notin (ValueDelims \cup {NUL})
            THEN parse_value_fail(
                   skc_parse_error([s EXCEPT !.m = m1],
                                   "No delimiter for value", v + 1), v)
            ELSE parse_value_end([s EXCEPT !.m = Poke(m1, p1, NUL),
                                           !.oob = @ \/ c = NUL],
                                 c, v + 1, p1 + 1))

\* else { p = strpbrk(v, ",;\n#}"); ... }: p is what strpbrk() returned.
parse_value_bare(s, v, p) ==
  IF p = NULLP
  THEN parse_value_fail(skc_parse_error(s, "No delimiter for value", v), v)
  ELSE Bind(strim(Poke(s.m, p, NUL), v), LAMBDA t :
         parse_value_end([s EXCEPT !.m = t.m], Ch(s.m, p), t.p, p + 1))

\* v is the start of the value, past leading spaces and comments.  The
\* search for the closing quote reads from v + 2 on.
parse_value_at(s, v) ==
  IF Ch(s.m, v) = "\"" \/ Ch(s.m, v) = "'"
  THEN parse_value_quoted([s EXCEPT !.oob = @ \/ Ch(s.m, v + 1) = NUL], v,
                          find_ending_quotes(s.m, v + 1, Ch(s.m, v)))
  ELSE parse_value_bare(s, v, strpbrk(s.m, v, ValueDelims))

__skc_parse_value(s, v0) ==
  parse_value_at(s, skip_comments(s.m, skip_spaces(s.m, v0)))

\* Returns the delimiter that ended the array, and the position after it.
RECURSIVE skc_parse_array(_, _)
skc_parse_array(s, v) ==
  Bind(__skc_parse_value(s, v), LAMBDA r :
    IF r.ret < 0 THEN r
    ELSE Bind(skc_add_sibling(r.s, r.v, SKC_VALUE), LAMBDA a :
           IF a.node = KILLED THEN [r EXCEPT !.s = a.s, !.ret = KILLED]
           ELSE IF a.node = NULLP THEN [r EXCEPT !.s = a.s, !.ret = -ENOMEM]
           ELSE IF r.c = "," THEN skc_parse_array(a.s, r.n)
           ELSE [r EXCEPT !.s = [a.s EXCEPT !.nodes[a.node].next = 0]]))

\* --------------------------------------------------------- keys (skc.c)

\* The first node of the chain whose string equals k, or NULL.  KILLED on
\* strcmp() of a NULL data pointer or a step to skc_nodes[SKC_NODE_MAX].
RECURSIVE find_match_node(_, _, _)
find_match_node(s, node, k) ==
  IF node = NULLP THEN NULLP
  ELSE IF node >= SKC_NODE_MAX THEN KILLED
  ELSE Bind(skc_node_get_data(s.nodes, s.size, node), LAMBDA d :
         IF d = NULLP THEN KILLED
         ELSE IF CStr(s.m, d) = CStr(s.m, k) THEN node
         ELSE find_match_node(s, skc_node_get_next(s.nodes, node), k))

add_node_label(s, k) ==
  Bind(skc_add_child(s, k, SKC_KEY), LAMBDA a :
    IF a.node = KILLED THEN [s |-> a.s, ret |-> KILLED]
    ELSE IF a.node = NULLP THEN [s |-> a.s, ret |-> -ENOMEM]
    ELSE [s |-> a.s, ret |-> 0])

__skc_add_key(s, k) ==
  IF ~skc_valid_keyword(s.m, k) THEN skc_parse_error(s, "Invalid keyword", k)
  ELSE IF s.num = 0 THEN add_node_label(s, k)
  ELSE Bind(find_match_node(s,
                            IF s.lp = NULLP THEN 0
                            ELSE skc_node_get_child(s.nodes, s.lp),
                            k),
            LAMBDA node :
              IF node = KILLED THEN [s |-> s, ret |-> KILLED]
              ELSE IF node # NULLP
              THEN [s |-> [s EXCEPT !.lp = node], ret |-> 0]
              ELSE add_node_label(s, k))

\* while ((p = strchr(k, '.'))) { *p++ = '\0'; __skc_add_key(k); k = p; }
RECURSIVE parse_keys_loop(_, _)
parse_keys_loop(s, k) ==
  Bind(strchr(s.m, k, "."), LAMBDA p :
    IF p = NULLP THEN __skc_add_key(s, k)
    ELSE Bind(__skc_add_key([s EXCEPT !.m = Poke(s.m, p, NUL)], k),
              LAMBDA r : IF r.ret # 0 THEN r
                         ELSE parse_keys_loop(r.s, p + 1)))

__skc_parse_keys(s, k) ==
  Bind(strim(s.m, k), LAMBDA t : parse_keys_loop([s EXCEPT !.m = t.m], t.p))

\* --------------------------------------------------- statements (skc.c)
\* Each returns [s, ret, k]: k is the caller's scan position *k afterwards.

\* The part of skc_parse_kv() after the value nodes are added: c is the
\* delimiter that ended the value or the array, next the position after it.
parse_kv_end(s, prev_parent, c, next, k) ==
  IF c = "}"
  THEN Bind(__skc_close_brace([s EXCEPT !.lp = prev_parent], next - 1),
            LAMBDA r : IF r.ret < 0 THEN [s |-> r.s, ret |-> r.ret, k |-> k]
                       ELSE [s |-> r.s, ret |-> 0, k |-> next])
  ELSE [s |-> [s EXCEPT !.lp = prev_parent], ret |-> 0, k |-> next]

\* The part of skc_parse_kv() after the keys: r2 is what
\* __skc_parse_value() returned.
parse_kv_value(prev_parent, k, r2) ==
  IF r2.ret < 0 THEN [s |-> r2.s, ret |-> r2.ret, k |-> k]
  ELSE Bind(skc_add_sibling(r2.s, r2.v, SKC_VALUE), LAMBDA a :
         IF a.node = KILLED THEN [s |-> a.s, ret |-> KILLED, k |-> k]
         ELSE IF a.node = NULLP THEN [s |-> a.s, ret |-> -ENOMEM, k |-> k]
         ELSE IF r2.c = ","
         THEN Bind(skc_parse_array(a.s, r2.n), LAMBDA arr :
                IF arr.ret < 0 THEN [s |-> arr.s, ret |-> arr.ret, k |-> k]
                ELSE parse_kv_end(arr.s, prev_parent, arr.c, arr.n, k))
         ELSE parse_kv_end(a.s, prev_parent, r2.c, r2.n, k))

skc_parse_kv(s, k, v) ==
  Bind(__skc_parse_keys(s, k), LAMBDA r1 :
    IF r1.ret # 0 THEN [s |-> r1.s, ret |-> r1.ret, k |-> k]
    ELSE parse_kv_value(s.lp, k, __skc_parse_value(r1.s, v)))

skc_parse_key(s, k, n) ==
  Bind(strim(s.m, k), LAMBDA t :
    IF Ch(t.m, t.p) # NUL
    THEN Bind(__skc_parse_keys([s EXCEPT !.m = t.m], t.p), LAMBDA r :
           IF r.ret # 0 THEN [s |-> r.s, ret |-> r.ret, k |-> t.p]
           ELSE [s |-> [r.s EXCEPT !.lp = s.lp], ret |-> 0, k |-> n])
    ELSE [s |-> [s EXCEPT !.m = t.m], ret |-> 0, k |-> n])

skc_open_brace(s, k, n) ==
  Bind(__skc_parse_keys(s, k), LAMBDA r :
    IF r.ret # 0 THEN [s |-> r.s, ret |-> r.ret, k |-> k]
    ELSE Bind(__skc_open_brace(r.s), LAMBDA b :
           [s |-> b.s, ret |-> b.ret, k |-> n]))

skc_close_brace(s, k, n) ==
  Bind(skc_parse_key(s, k, n), LAMBDA r :
    IF r.ret # 0 THEN r
    ELSE Bind(__skc_close_brace(r.s, n - 1), LAMBDA b :
           [s |-> b.s, ret |-> b.ret, k |-> r.k]))

\* The first node whose next is above the node count, or NULLP.
RECURSIVE verify_tree_scan(_, _)
verify_tree_scan(s, i) ==
  IF i >= s.num THEN NULLP
  ELSE IF s.nodes[i].next > s.num THEN i
  ELSE verify_tree_scan(s, i + 1)

skc_verify_tree(s) ==
  Bind(verify_tree_scan(s, 0), LAMBDA i :
    IF i = NULLP THEN [s |-> s, ret |-> 0]
    ELSE skc_parse_error(s, "No closing brace",
                         skc_node_get_data(s.nodes, s.size, i)))

\* ------------------------------------------------------ skc_init (skc.c)

StmtDelims == { "{", "}", "=", ";", NL, "#" }

\* One turn of the do-while: the statement that ends at the delimiter at q,
\* which is overwritten with the terminator.
init_statement(s, p, q) ==
  LET c == Ch(s.m, q)
      s1 == [s EXCEPT !.m = Poke(s.m, q, NUL)]
  IN CASE c = "=" -> skc_parse_kv(s1, p, q + 1)
       [] c = "{" -> skc_open_brace(s1, p, q + 1)
       [] c = "}" -> skc_close_brace(s1, p, q + 1)
       [] OTHER -> skc_parse_key(s1, p,
                                 IF c = "#" THEN skip_comment(s1.m, q + 1)
                                 ELSE q + 1)

\* do { ... } while (!ret): ret comes in as strlen(buf) on the first turn
\* and as 0 on the later ones, and goes out unchanged when the rest of the
\* buffer is blank.
RECURSIVE init_loop(_, _, _)
init_loop(s, p, ret) ==
  Bind(strpbrk(s.m, p, StmtDelims), LAMBDA q :
    IF q = NULLP
    THEN Bind(skip_spaces(s.m, p), LAMBDA p1 :
           IF Ch(s.m, p1) # NUL THEN skc_parse_error(s, "No delimiter", p1)
           ELSE [s |-> s, ret |-> ret])
    ELSE Bind(init_statement(s, p, q), LAMBDA r :
           IF r.ret # 0 THEN [s |-> r.s, ret |-> r.ret]
           ELSE init_loop(r.s, r.k, 0)))

\* The program state is a record st:
\*   nodes, num, lp   skc_nodes[], skc_node_num, last_parent
\*   data             whether skc_data is set (FALSE: NULL)
\*   size             skc_data_size
\*   m                the memory skc_data points at (<<>> when NULL)
\* skc_init returns [st, ret, msg, pos, buf, oob]: the state afterwards, the
\* return value, the message printed, the caller's buffer afterwards, and
\* whether the scan left the buffer.

\* What skc_init() leaves behind: v is the parser record and the return
\* value, and clear tells whether skc_data and skc_data_size are reset.
init_result(v, clear) ==
  [st |-> [nodes |-> v.s.nodes, num |-> v.s.num, lp |-> v.s.lp,
           data |-> ~clear,
           size |-> IF clear THEN 0 ELSE v.s.size,
           m |-> IF clear THEN <<>> ELSE v.s.m],
   ret |-> v.ret, msg |-> v.s.msg, pos |-> v.s.pos, buf |-> v.s.m,
   oob |-> v.s.oob]

\* As init_finish below, with the cleanup on an error left out.
init_finish_keeps_data(r) ==
  Bind(IF r.ret = 0 THEN skc_verify_tree(r.s) ELSE r,
       LAMBDA v : init_result(v, FALSE))

\* The end of skc_init(): verify the tree; on an error drop the buffer.
\* r is the result [s, ret] of the parse loop.
init_finish(r) ==
  Bind(IF r.ret = 0 THEN skc_verify_tree(r.s) ELSE r,
       LAMBDA v : init_result(v, v.ret < 0))

\* The parser record skc_init() starts from.
init_record(st, buf) ==
  [nodes |-> st.nodes, num |-> st.num, lp |-> st.lp, m |-> buf,
   size |-> strlen(buf, 0) + 1, msg |-> "", pos |-> 0, oob |-> FALSE]

\* An early return: nothing is written.
init_untouched(st, buf, ret) ==
  [st |-> st, ret |-> ret, msg |-> "", pos |-> 0, buf |-> buf,
   oob |-> FALSE]

\* As skc_init below, without the check of skc_data.
skc_init_not_busy(st, buf) ==
  Bind(strlen(buf, 0), LAMBDA len :
    IF len > SKC_DATA_MAX - 1 \/ len = 0 THEN init_untouched(st, buf, -ERANGE)
    ELSE init_finish(init_loop(init_record(st, buf), 0, len)))

\* As skc_init below, the length compared with SKC_DATA_MAX.
skc_init_long(st, buf) ==
  Bind(strlen(buf, 0), LAMBDA len :
    IF st.data THEN init_untouched(st, buf, -EBUSY)
    ELSE IF len > SKC_DATA_MAX \/ len = 0
    THEN init_untouched(st, buf, -ERANGE)
    ELSE init_finish(init_loop(init_record(st, buf), 0, len)))

skc_init(st, buf) ==
  Bind(strlen(buf, 0), LAMBDA len :
    IF st.data THEN init_untouched(st, buf, -EBUSY)
    ELSE IF len > SKC_DATA_MAX - 1 \/ len = 0
    THEN init_untouched(st, buf, -ERANGE)
    ELSE init_finish(init_loop(init_record(st, buf), 0, len)))

\* ------------------------------------------------- tree queries (skc.c)
\* A key handed to a query is a C string of its own: a sequence ending in
\* NUL, read with Ch() like the buffer.

skc_root_node(st) == IF ~st.data THEN NULLP ELSE 0

\* strncmp(a + i, b + j, len) = 0
RECURSIVE strn_equal(_, _, _, _, _)
strn_equal(a, i, b, j, len) ==
  IF len = 0 THEN TRUE
  ELSE IF Ch(a, i) # Ch(b, j) THEN FALSE
  ELSE IF Ch(a, i) = NUL THEN TRUE
  ELSE strn_equal(a, i + 1, b, j + 1, len - 1)

\* The tail of skc_node_match_prefix(): p is the node's word, len its
\* length.
match_prefix_word(st, p, len, key, kp) ==
  IF ~strn_equal(key, kp, st.m, p, len) THEN [ok |-> 0, kp |-> kp]
  ELSE IF Ch(key, kp + len) = "." THEN [ok |-> 1, kp |-> kp + len + 1]
  ELSE IF Ch(key, kp + len) # NUL THEN [ok |-> 0, kp |-> kp]
  ELSE [ok |-> 1, kp |-> kp + len]

\* [ok, kp]: whether the node's word is the next word of key at kp, and the
\* position after it.  ok is KILLED on strlen() of a NULL data pointer.
skc_node_match_prefix(st, node, key, kp) ==
  Bind(skc_node_get_data(st.nodes, st.size, node), LAMBDA p :
    IF p = NULLP THEN [ok |-> KILLED, kp |-> kp]
    ELSE match_prefix_word(st, p, strlen(st.m, p), key, kp))

\* while (node && skc_node_is_key(node)) ...
RECURSIVE find_child_loop(_, _, _, _)
find_child_loop(st, node, key, kp) ==
  IF node = NULLP THEN NULLP
  ELSE IF node >= SKC_NODE_MAX THEN KILLED
  ELSE IF ~skc_node_is_key(st.nodes, node) THEN node
  ELSE Bind(skc_node_match_prefix(st, node, key, kp), LAMBDA r :
         IF r.ok = KILLED THEN KILLED
         ELSE IF r.ok = 0
         THEN find_child_loop(st, skc_node_get_next(st.nodes, node), key, kp)
         ELSE IF Ch(key, r.kp) # NUL
         THEN find_child_loop(st, skc_node_get_child(st.nodes, node),
                              key, r.kp)
         ELSE node)

\* parent may be NULLP: the whole tree.
skc_node_find_child(st, parent, key) ==
  find_child_loop(st,
                  IF parent # NULLP THEN skc_node_get_child(st.nodes, parent)
                  ELSE skc_root_node(st),
                  key, 0)

\* [found, val, vnode]: found = FALSE is the NULL return, and then *vnode is
\* not written (vnode = NULLP here); val is the string returned.
NotFound == [found |-> FALSE, val |-> <<>>, vnode |-> NULLP]

\* The tail of skc_node_find_value(): node is a key node, vn its child.
find_value_of(st, vn) ==
  IF vn # NULLP /\ ~skc_node_is_value(st.nodes, vn) THEN NotFound
  ELSE IF vn = NULLP THEN [found |-> TRUE, val |-> <<>>, vnode |-> NULLP]
  ELSE Bind(skc_node_get_data(st.nodes, st.size, vn), LAMBDA d :
         IF d = NULLP THEN [found |-> FALSE, val |-> <<>>, vnode |-> vn]
         ELSE [found |-> TRUE, val |-> CStr(st.m, d), vnode |-> vn])

skc_node_find_value(st, parent, key) ==
  Bind(skc_node_find_child(st, parent, key), LAMBDA node :
    IF node = KILLED THEN [NotFound EXCEPT !.vnode = KILLED]
    ELSE IF node = NULLP \/ ~skc_node_is_key(st.nodes, node) THEN NotFound
    ELSE find_value_of(st, skc_node_get_child(st.nodes, node)))

SKC_KEYLEN_MAX == 256

\* while (node) { keys[depth++] = index; if (depth == SKC_DEPTH_MAX) ... }
\* The indices from node up to the top, or <<>> for -ERANGE.
RECURSIVE compose_key_stack(_, _, _)
compose_key_stack(nodes, node, keys) ==
  IF node = NULLP THEN keys
  ELSE IF Len(keys) + 1 = SKC_DEPTH_MAX THEN <<>>
  ELSE compose_key_stack(nodes, skc_node_get_parent(nodes, node),
                         Append(keys, node))

\* What printf("%s") prints for a node's data; "(null)" for a NULL pointer.
DataString(st, n) ==
  Bind(skc_node_get_data(st.nodes, st.size, n), LAMBDA d :
    IF d = NULLP THEN << "(", "n", "u", "l", "l", ")" >> ELSE CStr(st.m, d))

\* while (--depth >= 0) { ret = snprintf(buf, size, ...); ... }
\* out is the string in the caller's buffer so far, size what is left of it.
RECURSIVE compose_key_emit(_, _, _, _, _, _)
compose_key_emit(st, keys, depth, out, size, total) ==
  IF depth < 1 THEN [ret |-> total, key |-> out]
  ELSE Bind(DataString(st, keys[depth])
              \o (IF depth > 1 THEN << "." >> ELSE <<>>),
            LAMBDA str :
              compose_key_emit(st, keys, depth - 1,
                               out \o (IF size = 0 THEN <<>>
                                       ELSE IF Len(str) < size THEN str
                                       ELSE SubSeq(str, 1, size - 1)),
                               IF Len(str) > size THEN 0
                               ELSE size - Len(str),
                               total + Len(str)))

\* The tail of skc_node_compose_key(): top is the key node the walk up
\* starts from, keys what compose_key_stack() collected.
compose_key_from(st, top, keys, size) ==
  IF top # NULLP /\ keys = <<>> THEN [ret |-> -ERANGE, key |-> <<>>]
  ELSE compose_key_emit(st, keys, Len(keys), <<>>, size, 0)

\* if (skc_node_is_value(node)) node = skc_node_get_parent(node);
compose_key_top(st, node) ==
  IF skc_node_is_value(st.nodes, node)
  THEN skc_node_get_parent(st.nodes, node) ELSE node

\* [ret, key]: the return value and the string left in buf[size].
skc_node_compose_key(st, node, size) ==
  IF node = NULLP THEN [ret |-> -EINVAL, key |-> <<>>]
  ELSE compose_key_from(st, compose_key_top(st, node),
                        compose_key_stack(st.nodes,
                                          compose_key_top(st, node), <<>>),
                        size)

\* Not values of the program: skc_node_find_next_leaf() does not return.
HANG == -2000

\* while (!node->next) { node = parent; if (node == root) return NULL; ... }
\* then node = next.  More than SKC_NODE_MAX turns: the parent links cycle.
RECURSIVE next_leaf_up(_, _, _, _)
next_leaf_up(nodes, root, node, turns) ==
  IF nodes[node].next # 0 THEN skc_node_get_next(nodes, node)
  ELSE IF turns > SKC_NODE_MAX THEN HANG
  ELSE Bind(skc_node_get_parent(nodes, node), LAMBDA up :
         IF up = root \/ up = NULLP THEN NULLP
         ELSE next_leaf_up(nodes, root, up, turns + 1))

\* while (node && !skc_node_is_leaf(node)) node = skc_node_get_child(node);
RECURSIVE next_leaf_down(_, _, _)
next_leaf_down(nodes, node, turns) ==
  IF node = NULLP THEN NULLP
  ELSE IF node >= SKC_NODE_MAX THEN KILLED
  ELSE IF turns > SKC_NODE_MAX THEN HANG
  ELSE IF skc_node_is_leaf(nodes, node) THEN node
  ELSE next_leaf_down(nodes, skc_node_get_child(nodes, node), turns + 1)

\* root may be NULLP (the whole tree), node may be NULLP (the first call).
\* A node outside the array is a wild read.
skc_node_find_next_leaf(st, root, node) ==
  IF ~st.data THEN NULLP
  ELSE IF node = NULLP
  THEN next_leaf_down(st.nodes, IF root = NULLP THEN 0 ELSE root, 0)
  ELSE IF node = root THEN NULLP
  ELSE IF node >= SKC_NODE_MAX THEN KILLED
  ELSE Bind(next_leaf_up(st.nodes, root, node, 0), LAMBDA n :
         IF n = HANG THEN HANG ELSE next_leaf_down(st.nodes, n, 0))

\* The tail of skc_node_find_next_key_value(): l is the leaf found.
next_key_value_of(st, l) ==
  IF l < 0 THEN [leaf |-> l, found |-> FALSE, val |-> <<>>]
  ELSE IF st.nodes[l].child = 0
  THEN [leaf |-> l, found |-> TRUE, val |-> <<>>]
  ELSE IF st.nodes[l].child >= SKC_NODE_MAX
  THEN [leaf |-> KILLED, found |-> FALSE, val |-> <<>>]
  ELSE Bind(skc_node_get_data(st.nodes, st.size, st.nodes[l].child),
            LAMBDA d :
              IF d = NULLP THEN [leaf |-> l, found |-> FALSE, val |-> <<>>]
              ELSE [leaf |-> l, found |-> TRUE, val |-> CStr(st.m, d)])

\* [leaf, found, val]: *leaf afterwards, and the string returned (found =
\* FALSE: NULL).
skc_node_find_next_key_value(st, root, leaf) ==
  next_key_value_of(st, skc_node_find_next_leaf(st, root, leaf))

\* skc_node_for_each_key_value(parent, leaf, val): the values the loop
\* yields after leaf, "(null)" for a NULL value and "(fault)" in place of
\* the rest when a call does not return or the loop does not end.
RECURSIVE for_each_key_value(_, _, _, _)
for_each_key_value(st, parent, leaf, fuel) ==
  Bind(skc_node_find_next_key_value(st, parent, leaf), LAMBDA r :
    IF r.leaf = NULLP THEN <<>>
    ELSE IF r.leaf < 0 \/ fuel = 0 THEN << "(fault)" >>
    ELSE << IF r.found THEN r.val ELSE "(null)" >>
         \o for_each_key_value(st, parent, r.leaf, fuel - 1))

\* The tail of main()'s prefix mode: parent is what skc_find_node(prefix)
\* returned.
prefix_values_under(st, parent) ==
  IF parent = NULLP THEN <<>>
  ELSE IF parent = KILLED THEN << "(fault)" >>
  ELSE for_each_key_value(st, parent, NULLP, SKC_NODE_MAX)

\* main()'s prefix mode: the values listed for prefix, in the order listed.
prefix_values(st, prefix) ==
  IF Ch(prefix, 0) = NUL
  THEN for_each_key_value(st, NULLP, NULLP, SKC_NODE_MAX)
  ELSE prefix_values_under(st, skc_node_find_child(st, NULLP, prefix))

\* ------------------------------------------------------------ the program

VARIABLES
  skc_nodes,      \* static struct skc_node skc_nodes[SKC_NODE_MAX]
  skc_node_num,   \* static int skc_node_num
  skc_data,       \* static char *skc_data: NULLP, or the number of the
                  \* skc_init call whose buffer it points at
  skc_data_size,  \* static size_t skc_data_size
  last_parent,    \* static struct skc_node *last_parent
  skc_mem,        \* the memory skc_data points at (<<>> when NULL)
  ret,            \* what the last skc_init call returned
  msg,            \* what it printed through skc_parse_error ("" if nothing)
  arg_in,         \* the buffer handed to the last skc_init call, before
  arg_out,        \* and after the call
  oob,            \* the last call read past its buffer's terminator or
                  \* past the node array
  proc,           \* "running", "killed" (wild read) or "hung" (endless loop)
  calls,          \* skc_init calls so far
  used,           \* pieces of text consumed so far
  leaf,           \* the caller's cursor of skc_for_each_key_value
  val,            \* what the last skc_node_find_next_key_value returned
  alt,            \* the same document in dotted form, parsed on an arena of
                  \* its own (NoAlt when there is none)
  initrd          \* the bytes of the initrd file that skced works on

vars == << skc_nodes, skc_node_num, skc_data, skc_data_size, last_parent,
           skc_mem, ret, msg, arg_in, arg_out, oob, proc, calls, used,
           leaf, val, alt, initrd >>

arena == << skc_nodes, skc_node_num, skc_data, skc_data_size, last_parent,
            skc_mem >>

State ==
  [nodes |-> skc_nodes, num |-> skc_node_num, lp |-> last_parent,
   data |-> skc_data # NULLP, size |-> skc_data_size, m |-> skc_mem]

\* The arena of a program that has not called skc_init yet.
FreshState ==
  [nodes |-> [i \in 0..(SKC_NODE_MAX - 1) |-> ZeroNode], num |-> 0,
   lp |-> NULLP, data |-> FALSE, size |-> 0, m |-> <<>>]

\* ------------------------------------------------------ skced (skced.c)
\* A file is a sequence of bytes (0..255).  The text handed to skced -a is a
\* sequence of characters like every buffer above, and ByteCode gives the
\* byte of each character in the file.

ByteCode ==
  [c \in { NUL, NL, " ", "1", ";", "=", "a", "b" } |->
     CASE c = NUL -> 0 [] c = NL -> 10 [] c = " " -> 32 [] c = "1" -> 49
       [] c = ";" -> 59 [] c = "=" -> 61 [] c = "a" -> 97 [] c = "b" -> 98]

BytesOf(str) == [i \in 1..Len(str) |-> ByteCode[str[i]]]

\* *(u32 *)p = n: the bytes of a host-endian (little-endian) u32.
u32_bytes(n) ==
  << n % 256, (n \div 256) % 256, (n \div 65536) % 256,
     (n \div 16777216) % 256 >>

\* The word with the 16-bit halves high and low.
u32_bytes_of_halves(high, low) ==
  << low % 256, low \div 256, high % 256, high \div 256 >>

\* The u32 read at offset off of file, as its four bytes, and the two
\* 16-bit halves of such a word.
u32_at(file, off) == SubSeq(file, off + 1, off + 4)

u32_low(w) == w[1] + 256 * w[2]

u32_high(w) == w[3] + 256 * w[4]

\* The word is below 2^31; u32_int is its value then.
u32_fits(w) == u32_high(w) < 32768

u32_int(w) == 65536 * u32_high(w) + u32_low(w)

\* w + 8 in 32 bits, as a word.
u32_add8(w) ==
  u32_bytes_of_halves((u32_high(w) + (u32_low(w) + 8) \div 65536) % 65536,
                      (u32_low(w) + 8) % 65536)

\* n < w, for a file length n.
len_below(n, w) == ~u32_fits(w) \/ n < u32_int(w)

\* The sum of the bytes.  A file of the model is far too short for the sum
\* to leave 32 bits.
RECURSIVE checksum(_)
checksum(bytes) ==
  IF bytes = <<>> THEN 0 ELSE Head(bytes) + checksum(Tail(bytes))

\* The tail of load_skc_from_initrd(): size and csum are the two words at
\* the end of file.  size + 8 is computed in 32 bits; lseek() fails on a
\* negative offset.
load_skc_trailer(file, size, csum) ==
  IF len_below(Len(file), u32_add8(size)) THEN 0
  ELSE IF ~u32_fits(size) \/ Len(file) - 8 - u32_int(size) < 0 THEN -EINVAL
  ELSE IF csum # u32_bytes(checksum(SubSeq(file,
                                           Len(file) - 8 - u32_int(size) + 1,
                                           Len(file) - 8)))
  THEN 0
  ELSE u32_int(size)

\* The size of the payload found at the end of file, 0 if there is none,
\* or an error.  The result of the skc_init call on the payload is
\* dropped.
load_skc_from_initrd(file) ==
  IF Len(file) < 8 THEN -EINVAL
  ELSE load_skc_trailer(file, u32_at(file, Len(file) - 8),
                        u32_at(file, Len(file) - 4))

\* [ret, file]: the return value and the file afterwards.
delete_skc(file) ==
  Bind(load_skc_from_initrd(file), LAMBDA size :
    IF size < 0 THEN [ret |-> size, file |-> file]
    ELSE IF size > 0
    THEN [ret |-> 0, file |-> SubSeq(file, 1, Len(file) - size - 8)]
    ELSE [ret |-> 0, file |-> file])

\* data: the text, its terminator, size and csum.
skc_trailer(text) ==
  BytesOf(text) \o << 0 >> \o u32_bytes(Len(text) + 1)
    \o u32_bytes(checksum(BytesOf(text) \o << 0 >>))

\* The tail of append_skc(): r is what skc_init(buf) returned and d what
\* delete_skc(path) returned.
append_skc_write(file, text, r, d) ==
  IF r.ret < 0 THEN [ret |-> r.ret, file |-> file]
  ELSE IF d.ret < 0 THEN [ret |-> d.ret, file |-> file]
  ELSE [ret |-> 0, file |-> d.file \o skc_trailer(text)]

\* [ret, file]: skced -a on a file that holds text.  The check of the
\* text runs before the file is touched.
append_skc(file, text) ==
  append_skc_write(file, text,
                   skc_init(FreshState, text \o << NUL, NUL >>),
                   delete_skc(file))

\* ---- bounds and inputs

MaxCalls == 2
MaxPieces == 3
MaxStmts == 3

\* The texts handed to skc_init are concatenations of these pieces.
Pieces ==
  { << "a", ";" >>,
    << "b", ";" >>,
    << "a", "=", "1", ";" >>,
    << "a", ".", "b", "=", "2", ";" >>,
    << "a", "{" >>,
    << "b", "{" >>,
    << "}" >>,
    << "a", "=", "1", "#", "x", NL >>,
    << ";" >>,
    << " " >>,
    << "=" >>,
    << "a", "=", "'", "x", "'" >> }

\* The bytes that follow the buffer's terminator in memory.
Tails == { << NUL >>, << "}", NUL >> }

RECURSIVE Flatten(_)
Flatten(ps) == IF ps = <<>> THEN <<>> ELSE Head(ps) \o Flatten(Tail(ps))

PieceSeqs(n) == UNION { [1..k -> Pieces] : k \in 0..n }

NoVal == [found |-> FALSE, val |-> <<>>]

NoAlt == [text |-> <<>>]

Init ==
  /\ skc_nodes = FreshState.nodes
  /\ skc_node_num = 0
  /\ skc_data = NULLP
  /\ skc_data_size = 0
  /\ last_parent = NULLP
  /\ skc_mem = <<>>
  /\ ret = 0
  /\ msg = ""
  /\ arg_in = <<>>
  /\ arg_out = <<>>
  /\ oob = FALSE
  /\ proc = "running"
  /\ calls = 0
  /\ used = 0
  /\ leaf = NULLP
  /\ val = NoVal
  /\ alt = NoAlt
  /\ initrd = <<>>

\* The program after skc_init(buf) has returned r, buf holding text.  A call
\* that made a wild read either kills the process or goes on with whatever
\* it read: it returns some result, the arena as it was at the read, and
\* skc_data dropped on an error as at the end of every call.
InitDone(r, text) ==
  /\ calls' = calls + 1
  /\ UNCHANGED initrd
  /\ leaf' = NULLP
  /\ val' = NoVal
  /\ arg_in' = text \o << NUL >>
  /\ IF r.ret = KILLED
     THEN \/ /\ proc' = "killed"
             /\ UNCHANGED << arena, ret, msg, arg_out, oob >>
          \/ \E e \in { 0, -EINVAL, -ENOMEM } :
               /\ proc' = proc
               /\ skc_nodes' = r.st.nodes
               /\ skc_node_num' = r.st.num
               /\ last_parent' = r.st.lp
               /\ skc_data_size' = IF e < 0 THEN 0 ELSE Len(text) + 1
               /\ skc_data' = IF e < 0 THEN NULLP ELSE calls + 1
               /\ skc_mem' = IF e < 0 THEN <<>> ELSE r.buf
               /\ ret' = e
               /\ msg' = r.msg
               /\ arg_out' = r.buf
               /\ oob' = TRUE
     ELSE /\ proc' = proc
          /\ skc_nodes' = r.st.nodes
          /\ skc_node_num' = r.st.num
          /\ last_parent' = r.st.lp
          /\ skc_data_size' = r.st.size
          /\ skc_data' = IF ~r.st.data THEN NULLP
                         ELSE IF skc_data # NULLP THEN skc_data
                         ELSE calls + 1
          /\ skc_mem' = IF ~r.st.data THEN <<>>
                        ELSE IF skc_data # NULLP THEN skc_mem
                        ELSE IF r.oob THEN r.st.m
                        ELSE SubSeq(r.st.m, 1, Len(text) + 1)
          /\ ret' = r.ret
          /\ msg' = r.msg
          /\ arg_out' = IF r.oob THEN r.buf
                        ELSE SubSeq(r.buf, 1, Len(text) + 1)
          /\ oob' = r.oob

\* skc_init(buf), buf holding text and followed in memory by tail.
InitCall(text, tail) ==
  InitDone(skc_init(State, text \o << NUL >> \o tail), text)

Parse ==
  /\ proc = "running"
  /\ calls < MaxCalls
  /\ \E ps \in PieceSeqs(MaxPieces - used) :
       /\ used' = used + Len(ps)
       /\ \E tail \in Tails : InitCall(Flatten(ps), tail)
  /\ UNCHANGED alt

\* The program after skc_node_find_next_key_value(NULL, &leaf) has
\* returned r.  A read of skc_nodes[SKC_NODE_MAX] and beyond either kills
\* the process or yields whatever lies behind the array.
WalkDone(r) ==
  IF r.leaf = HANG
  THEN proc' = "hung" /\ UNCHANGED << leaf, val >>
  ELSE IF r.leaf = KILLED
  THEN \/ proc' = "killed" /\ UNCHANGED << leaf, val >>
       \/ /\ proc' = proc
          /\ leaf' \in (0..SKC_NODE_MAX) \cup { NULLP }
          /\ val' = NoVal
  ELSE /\ leaf' = r.leaf
       /\ val' = [found |-> r.found, val |-> r.val]
       /\ proc' = proc

\* value = skc_node_find_next_key_value(NULL, &leaf): one turn of
\* skc_for_each_key_value.
Walk ==
  /\ proc = "running"
  /\ WalkDone(skc_node_find_next_key_value(State, NULLP, leaf))
  /\ UNCHANGED << arena, ret, msg, arg_in, arg_out, oob, calls, used, alt,
                  initrd >>

Next == Parse \/ Walk

Spec == Init /\ [][Next]_vars

\* ---- one document, two ways of writing it
\* A document is a sequence of statements, each a key path with or without
\* a value.  A statement is written dotted (a.b=1;) or with one brace block
\* per word of its prefix (a{b=1;}).

MergeStmts ==
  { [path |-> << "a" >>, val |-> <<>>],
    [path |-> << "b" >>, val |-> <<>>],
    [path |-> << "a", "b" >>, val |-> << "1" >>],
    [path |-> << "a", "c" >>, val |-> << "2" >>],
    [path |-> << "a", "c" >>, val |-> <<>>],
    [path |-> << "b", "a" >>, val |-> << "1" >>] }

Styles == { "dotted", "braces" }

RECURSIVE RenderTail(_, _, _)
RenderTail(path, v, style) ==
  IF Len(path) = 1
  THEN Head(path) \o (IF v = <<>> THEN <<>> ELSE << "=" >> \o v) \o << ";" >>
  ELSE IF style = "dotted"
  THEN Head(path) \o << "." >> \o RenderTail(Tail(path), v, style)
  ELSE Head(path) \o << "{" >> \o RenderTail(Tail(path), v, style)
       \o << "}" >>

RenderStmt(stmt, style) ==
  RenderTail([i \in 1..Len(stmt.path) |-> << stmt.path[i] >>], stmt.val,
             style)

RECURSIVE RenderDoc(_, _)
RenderDoc(doc, styles) ==
  IF doc = <<>> THEN <<>>
  ELSE RenderStmt(Head(doc), Head(styles))
       \o RenderDoc(Tail(doc), Tail(styles))

Docs == UNION { [1..k -> MergeStmts] : k \in 1..MaxStmts }

\* What is kept of skc_init(text) on an arena of its own.
AltOf(text, r) == [text |-> text, st |-> r.st, ret |-> r.ret, msg |-> r.msg]

Dotted(doc) == RenderDoc(doc, [i \in 1..Len(doc) |-> "dotted"]) \o << NUL >>

\* skc_init on both writings of one document, each on a fresh arena: the
\* chosen writing on the program's arena, the dotted one on alt.
ParseRenderings ==
  /\ proc = "running"
  /\ calls = 0
  /\ \E doc \in Docs : \E styles \in [1..Len(doc) -> Styles] :
       /\ InitCall(RenderDoc(doc, styles), << NUL >>)
       /\ alt' = AltOf(Dotted(doc), skc_init(FreshState, Dotted(doc)))
       /\ used' = Len(doc)

MergeNext == ParseRenderings \/ Walk

SpecMerge == Init /\ [][MergeNext]_vars

\* ---- one statement, its values and its terminator
\* A value is the string s, written bare (q = "") or between two quote
\* characters q.  A value document is one statement of key a, with no value,
\* one value or an array, inside a block c{ } or not, and what follows it.

MaxVals == 2

BareValues == { [s |-> << "1" >>, q |-> ""], [s |-> << "2" >>, q |-> ""] }

QuotedStrings ==
  { <<>>, << "x" >>, << ";" >>, << "," >>, << "#" >>, << "}" >>, << "=" >>,
    << "{" >>, << NL >> }

QuotedValues == { [s |-> str, q |-> q] : str \in QuotedStrings, q \in { "\"", "'" } }

Values == BareValues \cup QuotedValues

Follows == { <<>>, << "b", ";" >>, << "b", "=", "2", ";" >> }

ValueDocs ==
  { [block |-> b, vals |-> vs, follow |-> f] :
      b \in BOOLEAN,
      vs \in UNION { [1..k -> Values] : k \in 0..MaxVals },
      f \in Follows }

\* How the statement ends: with ;, with a newline, or with a comment that
\* runs to the end of the line.
Terms == { "semicolon", "newline", "comment" }

TermText(term) ==
  CASE term = "semicolon" -> << ";" >>
    [] term = "newline" -> << NL >>
    [] term = "comment" -> << "#", "x", NL >>

ValueString(v) == IF v.q = "" THEN v.s ELSE << v.q >> \o v.s \o << v.q >>

RECURSIVE RenderValues(_)
RenderValues(vs) ==
  IF Len(vs) = 1 THEN ValueString(Head(vs))
  ELSE ValueString(Head(vs)) \o << "," >> \o RenderValues(Tail(vs))

ValueText(d, term) ==
  (IF d.block THEN << "c", "{" >> ELSE <<>>)
    \o << "a" >>
    \o (IF d.vals = <<>> THEN <<>> ELSE << "=" >> \o RenderValues(d.vals))
    \o TermText(term)
    \o d.follow
    \o (IF d.block THEN << "}" >> ELSE <<>>)

\* What is kept of skc_init(text) on an arena of its own, text being the
\* document d with its statement ended by a newline.
AltValue(d, term, text, r) ==
  [text |-> text, st |-> r.st, ret |-> r.ret, msg |-> r.msg, oob |-> r.oob,
   doc |-> d, term |-> term]

\* skc_init on a value document, each on a fresh arena: with the chosen
\* terminator on the program's arena, with the newline on alt.
ParseValues ==
  /\ proc = "running"
  /\ calls = 0
  /\ \E d \in ValueDocs : \E term \in Terms :
       /\ \E tail \in Tails : InitCall(ValueText(d, term), tail)
       /\ \E tail \in Tails :
            alt' = AltValue(d, term, ValueText(d, "newline"),
                            skc_init(FreshState,
                                     ValueText(d, "newline") \o << NUL >>
                                       \o tail))
       /\ used' = Len(d.vals)

ValuesNext == ParseValues \/ Walk

SpecValues == Init /\ [][ValuesNext]_vars

\* ---- documents that fill the node array
\* The statements of MergeStmts again, in longer documents: a document may
\* need fewer nodes than the array holds, exactly as many, or more.

MaxCapStmts == 4

CapacityDocs == UNION { [1..k -> MergeStmts] : k \in 1..MaxCapStmts }

\* What is kept of the document the text was written from.
AltStmts(text, doc) == [text |-> text, stmts |-> doc]

\* skc_init on a document on a fresh arena.
ParseCapacity ==
  /\ proc = "running"
  /\ calls = 0
  /\ \E doc \in CapacityDocs : \E styles \in [1..Len(doc) -> Styles] :
       /\ InitCall(RenderDoc(doc, styles), << NUL >>)
       /\ alt' = AltStmts(RenderDoc(doc, styles), doc)
       /\ used' = Len(doc)

CapacityNext == ParseCapacity \/ Walk

SpecCapacity == Init /\ [][CapacityNext]_vars

\* ---- buffers at the limits of the length check
\* One key statement padded to a chosen length: the key a first and a
\* comment after it, a comment first and the key last, spaces first and
\* the key last, or the key with one long value.

Pads == { "comment after", "comment before", "spaces before", "long value" }

SizedLengths ==
  { 4, SKC_DATA_MAX - 1, SKC_DATA_MAX, SKC_DATA_MAX + 1 }

Filler(c, n) == [i \in 1..n |-> c]

SizedText(pad, len) ==
  CASE pad = "comment after" -> << "a", ";", "#" >> \o Filler("x", len - 3)
    [] pad = "comment before" ->
         << "#" >> \o Filler("x", len - 4) \o << NL, "a", ";" >>
    [] pad = "spaces before" -> Filler(" ", len - 2) \o << "a", ";" >>
    [] pad = "long value" ->
         << "a", "=" >> \o Filler("x", len - 3) \o << ";" >>

\* What is kept of the way the text was written.
AltSized(text, pad) == [text |-> text, pad |-> pad]

\* skc_init on the empty buffer, or on one key statement of a chosen length.
ParseSized ==
  /\ proc = "running"
  /\ calls < MaxCalls
  /\ \/ /\ InitCall(<<>>, << NUL >>)
        /\ alt' = AltSized(<<>>, "empty")
     \/ \E pad \in Pads, len \in SizedLengths :
          /\ InitCall(SizedText(pad, len), << NUL >>)
          /\ alt' = AltSized(SizedText(pad, len), pad)
  /\ used' = used + 1

LengthNext == ParseSized \/ Walk

SpecLength == Init /\ [][LengthNext]_vars

\* ---- texts whose keys share words and parts of words

MaxPrefixPieces == 3

PrefixPieces ==
  { << "a", "=", "1", ";" >>,
    << "a", "b", "=", "2", ";" >>,
    << "a", ".", "b", "=", "3", ";" >>,
    << "a", ".", "a", "b", "=", "1", ";" >>,
    << "a", ".", "b", ".", "a", "=", "2", ";" >>,
    << "b", ";" >>,
    << "b", ".", "a", "=", "1", ",", "2", ";" >> }

PrefixTexts == { Flatten(ps) : ps \in UNION { [1..k -> PrefixPieces] :
                                               k \in 1..MaxPrefixPieces } }

\* skc_init on a text on a fresh arena.
ParsePrefix ==
  /\ proc = "running"
  /\ calls = 0
  /\ \E text \in PrefixTexts : InitCall(text, << NUL >>)
  /\ used' = 1
  /\ UNCHANGED alt

PrefixNext == ParsePrefix \/ Walk

SpecPrefix == Init /\ [][PrefixNext]_vars

\* ---- statements with an empty bare value
\* The value documents again, with bare values only, some of them empty or
\* blank.

EmptyValues == { [s |-> <<>>, q |-> ""], [s |-> << " " >>, q |-> ""] }

EmptyDocs ==
  { [block |-> b, vals |-> vs, follow |-> f] :
      b \in BOOLEAN,
      vs \in UNION { [1..k -> BareValues \cup EmptyValues] : k \in 1..MaxVals },
      f \in Follows }

\* What is kept of the values the text was written from.
AltVals(text, d) == [text |-> text, vals |-> d.vals]

\* skc_init on a document on a fresh arena.
ParseEmpty ==
  /\ proc = "running"
  /\ calls = 0
  /\ \E d \in EmptyDocs : \E term \in Terms :
       /\ InitCall(ValueText(d, term), << NUL >>)
       /\ alt' = AltVals(ValueText(d, term), d)
       /\ used' = Len(d.vals)

EmptyNext == ParseEmpty \/ Walk

SpecEmpty == Init /\ [][EmptyNext]_vars

\* ---- skced on an initrd file

MaxOps == 3

\* The initrd files skced is given: empty, shorter than 8 bytes, 8 bytes
\* and longer, none with a payload that matches its checksum.
InitrdFiles ==
  { <<>>,
    << 1 >>,
    << 1, 2, 3, 4, 5, 6, 7 >>,
    << 1, 1, 1, 1, 1, 1, 1, 1 >>,
    << 255, 255, 255, 255, 255, 255, 255, 255 >>,
    << 7, 1, 0, 0, 0, 9, 0, 0, 0 >>,
    << 5, 6, 7, 8, 9, 2, 0, 0, 0, 1, 0, 0, 0 >> }

\* The texts given to skced -a.
InitrdTexts ==
  { << "a", ";" >>, << "a", "=", "1", ";" >>, << "b", ";", NL >>,
    << "=" >>, << " " >> }

\* What is kept of the run: the file as it was given, the last operation,
\* its text and its return value.
AltInitrd(file, op, text, r) ==
  [text |-> text, given |-> file, op |-> op, ret |-> r]

IsInitrdRun == "given" \in DOMAIN alt

\* The initrd file that skced is pointed at.
InitrdGiven ==
  /\ ~IsInitrdRun
  /\ calls = 0
  /\ \E file \in InitrdFiles :
       /\ initrd' = file
       /\ alt' = AltInitrd(file, "given", <<>>, 0)
  /\ UNCHANGED << arena, ret, msg, arg_in, arg_out, oob, proc, calls, used,
                  leaf, val >>

\* skced -a text initrd
InitrdAppend ==
  /\ IsInitrdRun
  /\ used < MaxOps
  /\ \E text \in InitrdTexts :
       /\ initrd' = append_skc(initrd, text).file
       /\ alt' = AltInitrd(alt.given, "append", text,
                           append_skc(initrd, text).ret)
  /\ used' = used + 1
  /\ UNCHANGED << arena, ret, msg, arg_in, arg_out, oob, proc, calls, leaf,
                  val >>

\* skced -d initrd
InitrdDelete ==
  /\ IsInitrdRun
  /\ used < MaxOps
  /\ initrd' = delete_skc(initrd).file
  /\ alt' = AltInitrd(alt.given, "delete", <<>>, delete_skc(initrd).ret)
  /\ used' = used + 1
  /\ UNCHANGED << arena, ret, msg, arg_in, arg_out, oob, proc, calls, leaf,
                  val >>

InitrdNext == InitrdGiven \/ InitrdAppend \/ InitrdDelete

SpecInitrd == Init /\ [][InitrdNext]_vars

\* ---- texts in which one word is a value in one statement and a key in
\* another

MaxWordPieces == 3

WordPieces ==
  { << "a", "=", "b", ";" >>,
    << "a", ".", "b", "=", "1", ";" >>,
    << "a", ".", "b", ";" >>,
    << "a", ";" >>,
    << "b", "=", "a", ",", "b", ";" >>,
    << "b", ".", "a", ".", "b", ";" >> }

WordTexts == { Flatten(ps) : ps \in UNION { [1..k -> WordPieces] :
                                             k \in 1..MaxWordPieces } }

\* skc_init on a text on a fresh arena.
ParseWords ==
  /\ proc = "running"
  /\ calls = 0
  /\ \E text \in WordTexts : InitCall(text, << NUL >>)
  /\ used' = 1
  /\ UNCHANGED alt

WordsNext == ParseWords \/ Walk

SpecWords == Init /\ [][WordsNext]_vars

\* ------------------------------------------------------------ the claims

\* skc_init has just returned 0 and the process runs.
Parsed == proc = "running" /\ calls > 0 /\ ret = 0 /\ skc_data # NULLP

\* The first skc_init call of the program has returned 0: the arena held
\* nothing from an earlier call.
ParsedFirst == Parsed /\ calls = 1 /\ ~oob

\* No node is left with a brace mark.
NoOpenMark == \A n \in 0..(skc_node_num - 1) : skc_nodes[n].next < skc_node_num

KeyNodes == { n \in 0..(skc_node_num - 1) : skc_node_is_key(skc_nodes, n) }

\* The value nodes whose parent is the key node n, in the order they were
\* added.
ValuesOf(n) ==
  { v \in 0..(skc_node_num - 1) :
      skc_node_is_value(skc_nodes, v) /\ skc_nodes[v].parent = n }

Smallest(S) == CHOOSE x \in S : \A y \in S : x <= y

\* The full dotted key of node n as a C string.
PathOf(n) == skc_node_compose_key(State, n, SKC_KEYLEN_MAX).key \o << NUL >>

\* The string of value node v.
StringOf(v) == CStr(skc_mem, skc_nodes[v].data % SKC_VALUE)

\* The text of the last skc_init call, without its terminator.
TextIn == SubSeq(arg_in, 1, Len(arg_in) - 1)

\* The brace blocks of a text, with comments (# to end of line) and quoted
\* strings skipped: [open, unmatched], the blocks still open after t[1..i]
\* and whether a } came with no block open.
RECURSIVE BraceScan(_, _, _, _, _)
BraceScan(t, i, mode, open, unmatched) ==
  IF i > Len(t) THEN [open |-> open, unmatched |-> unmatched]
  ELSE IF mode = "#"
  THEN BraceScan(t, i + 1, IF t[i] = NL THEN "" ELSE mode, open, unmatched)
  ELSE IF mode # ""
  THEN BraceScan(t, i + 1, IF t[i] = mode THEN "" ELSE mode, open, unmatched)
  ELSE IF t[i] \in { "#", "'", "\"" }
  THEN BraceScan(t, i + 1, t[i], open, unmatched)
  ELSE IF t[i] = "{" THEN BraceScan(t, i + 1, mode, open + 1, unmatched)
  ELSE IF t[i] = "}"
  THEN BraceScan(t, i + 1, mode, IF open > 0 THEN open - 1 ELSE 0,
                 unmatched \/ open = 0)
  ELSE BraceScan(t, i + 1, mode, open, unmatched)

Braces(t) == BraceScan(t, 1, "", 0, FALSE)

\* The nodes on the next chain that starts at node n.
RECURSIVE ChainFrom(_, _)
ChainFrom(n, fuel) ==
  IF fuel = 0 \/ n >= skc_node_num THEN {}
  ELSE {n} \cup (IF skc_nodes[n].next = 0 THEN {}
                 ELSE ChainFrom(skc_nodes[n].next, fuel - 1))

\* skc_array_for_each_value: the strings of the chain that starts at the
\* value node v.
RECURSIVE ValueList(_, _, _)
ValueList(st, v, fuel) ==
  IF v = NULLP \/ v >= SKC_NODE_MAX \/ fuel = 0 THEN <<>>
  ELSE << DataString(st, v) >>
       \o ValueList(st, skc_node_get_next(st.nodes, v), fuel - 1)

\* skc_for_each_key_value over the whole tree of st: the set of
\* << composed key, value list >> of the leaves it yields after leaf.
RECURSIVE WalkPairs(_, _, _)
WalkPairs(st, from, fuel) ==
  LET l == skc_node_find_next_leaf(st, NULLP, from)
  IN IF l = NULLP THEN {}
     ELSE IF l < 0 \/ fuel = 0 THEN { << "the walk does not end" >> }
     ELSE { << skc_node_compose_key(st, l, SKC_KEYLEN_MAX).key,
               ValueList(st, skc_node_get_child(st.nodes, l),
                         SKC_NODE_MAX) >> }
          \cup WalkPairs(st, l, fuel - 1)

KeyValues(st) == WalkPairs(st, NULLP, SKC_NODE_MAX)

\* The keys the queries of the claims are asked for.
QueryKeys ==
  { << NUL >>, << "a", NUL >>, << "b", NUL >>, << "a", ".", "b", NUL >> }

\* C1: after a successful skc_init every key the text defined is found
\* under its dotted path from the root, skc_node_find_value() of a path
\* that was assigned values returns the first of them, and of a key that
\* was only declared the empty string.
C1_DefinedKeysAreFound ==
  (ParsedFirst /\ NoOpenMark) =>
    \A n \in KeyNodes :
      /\ skc_node_find_child(State, NULLP, PathOf(n)) = n
      /\ ValuesOf(n) # {} =>
           skc_node_find_value(State, NULLP, PathOf(n)) =
             [found |-> TRUE, val |-> StringOf(Smallest(ValuesOf(n))),
              vnode |-> Smallest(ValuesOf(n))]
      /\ skc_nodes[n].child = 0 =>
           skc_node_find_value(State, NULLP, PathOf(n)) =
             [found |-> TRUE, val |-> <<>>, vnode |-> NULLP]

\* The queries see no tree.
NothingExposed ==
  /\ skc_root_node(State) = NULLP
  /\ skc_node_find_next_leaf(State, NULLP, NULLP) = NULLP
  /\ \A k \in QueryKeys :
       /\ skc_node_find_child(State, NULLP, k) = NULLP
       /\ ~skc_node_find_value(State, NULLP, k).found

\* C2 as stated: after any skc_init call that returns an error, the root,
\* child, value and leaf queries all return none.
C2_NoTreeAfterAnyError ==
  (proc = "running" /\ calls > 0 /\ ret < 0) => NothingExposed

\* C2: after any skc_init call that returns an error other than -EBUSY,
\* whatever nodes were added before the error, skc_root_node(),
\* skc_node_find_child(NULL, k), skc_node_find_value(NULL, k) and
\* skc_node_find_next_leaf(NULL, NULL) return none.
C2_NoTreeAfterParseError ==
  (proc = "running" /\ calls > 0 /\ ret < 0 /\ ret # -EBUSY)
    => NothingExposed

\* A parse error after nodes were added.
C2_ErrorAfterNodes ==
  /\ proc = "running"
  /\ ret = -EINVAL
  /\ skc_node_num > 1
  /\ skc_data = NULLP

\* C3: skc_init(T) after failed skc_init calls returns what skc_init(T)
\* returns on a never-used arena, and when it succeeds it has built the
\* same tree.
C3_RetryAsOnFreshArena ==
  [][(calls' = calls + 1 /\ skc_data = NULLP /\ proc' = "running" /\ ~oob')
       => LET f == skc_init(FreshState, arg_in' \o << NUL >>)
          IN /\ ret' = f.ret
             /\ ret' = 0 => /\ skc_node_num' = f.st.num
                            /\ skc_nodes' = f.st.nodes
                            /\ last_parent' = f.st.lp]_vars

\* C4: a successful skc_init sets skc_data, skc_data once set is never
\* cleared, and every skc_init call made while it is set returns -EBUSY
\* and changes neither the nodes, the node count, last_parent, skc_data,
\* the buffer skc_data points at, nor the buffer of the call.
C4_BusyOncePopulated ==
  [][/\ (calls' = calls + 1 /\ proc' = "running" /\ ret' = 0)
          => skc_data' # NULLP
     /\ skc_data # NULLP => skc_data' = skc_data
     /\ (calls' = calls + 1 /\ skc_data # NULLP)
          => /\ proc' = "running"
             /\ ret' = -EBUSY
             /\ UNCHANGED arena
             /\ arg_out' = arg_in']_vars

\* A second skc_init, with another text, was refused on a populated arena.
C4_RefusedSecondCall ==
  /\ proc = "running"
  /\ calls = 2
  /\ ret = -EBUSY
  /\ skc_data = 1
  /\ skc_node_num > 0
  /\ Len(arg_in) # Len(skc_mem)

\* C5: a text with a { block that is still open at the end of the input is
\* rejected, so that after a successful skc_init no node holds the brace
\* mark and every next index is below the node count.
C5_UnclosedBraceRejected ==
  ParsedFirst =>
    /\ Braces(TextIn).open = 0
    /\ \A n \in 0..(skc_node_num - 1) :
         /\ skc_nodes[n].next # SKC_NODE_MAX
         /\ skc_nodes[n].next < skc_node_num

\* C6: a } pops exactly one open block, so that skc_init reports
\* "Unexpected closing brace" only for a text in which some } comes with no
\* block open.
C6_ClosePopsOneBlock ==
  (proc = "running" /\ calls = 1 /\ ~oob
     /\ msg = "Unexpected closing brace")
    => Braces(TextIn).unmatched

\* C7: after a successful skc_init every top-level key is on the next chain
\* of node 0, and every other node is on the next chain of its parent's
\* child.
C7_ParentLinks ==
  (ParsedFirst /\ NoOpenMark) =>
    \A n \in 0..(skc_node_num - 1) :
      IF skc_nodes[n].parent = SKC_NODE_MAX
      THEN n \in ChainFrom(0, SKC_NODE_MAX)
      ELSE /\ skc_nodes[n].parent < skc_node_num
           /\ skc_nodes[skc_nodes[n].parent].child # 0
           /\ n \in ChainFrom(skc_nodes[skc_nodes[n].parent].child,
                              SKC_NODE_MAX)

\* C8: after a successful skc_init the next of a key node is a key node and
\* the next of a value node is a value node.
C8_SiblingKinds ==
  (ParsedFirst /\ NoOpenMark) =>
    \A n \in 0..(skc_node_num - 1) :
      skc_nodes[n].next # 0 =>
        (skc_node_is_value(skc_nodes, n)
           <=> skc_node_is_value(skc_nodes, skc_nodes[n].next))

\* C9: a document written with brace blocks and the same document written
\* dotted both parse or both fail, and when they parse the two trees yield
\* the same set of (composed key, value list) pairs.
C9_SameTreeBothWays ==
  (proc = "running" /\ calls = 1 /\ alt # NoAlt) =>
    /\ (ret = 0) <=> (alt.ret = 0)
    /\ ret = 0 => KeyValues(State) = KeyValues(alt.st)

\* C10: for every leaf the key-value walk yields after a successful
\* skc_init, skc_node_compose_key() gives its full key and
\* skc_node_find_value(NULL, key) returns the string and the value node
\* the walk returned for it.
C10_WalkedKeyFindsValue ==
  (ParsedFirst /\ NoOpenMark /\ leaf # NULLP) =>
    /\ skc_node_compose_key(State, leaf, SKC_KEYLEN_MAX).ret >= 0
    /\ skc_node_find_value(State, NULLP, PathOf(leaf)) =
         [found |-> val.found, val |-> val.val,
          vnode |-> IF skc_nodes[leaf].child = 0 THEN NULLP
                    ELSE skc_nodes[leaf].child]

\* The last skc_init call parsed a value document.
IsValueDoc == "doc" \in DOMAIN alt

\* The node of key a of a value document: keys are added in text order.
KeyA == IF alt.doc.block THEN 1 ELSE 0

\* The path of key a of a value document, as a C string.
PathA ==
  (IF alt.doc.block THEN << "c", "." >> ELSE <<>>) \o << "a", NUL >>

\* The strings of the document's values, in text order.
DocStrings == [i \in 1..Len(alt.doc.vals) |-> alt.doc.vals[i].s]

\* C11: after a successful skc_init of a statement a = V1, ..., Vm the chain
\* from a's child through next has exactly m nodes, all of them value nodes
\* of a, their strings are V1..Vm in text order, and skc_node_find_value()
\* of a returns V1 and the first value node.
C11_ArrayInTextOrder ==
  (ParsedFirst /\ IsValueDoc /\ alt.doc.vals # <<>>) =>
    /\ skc_nodes[KeyA].child # 0
    /\ ValueList(State, skc_nodes[KeyA].child, SKC_NODE_MAX) = DocStrings
    /\ \A v \in ChainFrom(skc_nodes[KeyA].child, SKC_NODE_MAX) :
         skc_node_is_value(skc_nodes, v) /\ skc_nodes[v].parent = KeyA
    /\ skc_node_find_value(State, NULLP, PathA) =
         [found |-> TRUE, val |-> DocStrings[1],
          vnode |-> skc_nodes[KeyA].child]

\* The nodes a value document needs: its keys and its values.
DocNodes ==
  (IF alt.doc.block THEN 1 ELSE 0) + 1 + Len(alt.doc.vals)
    + (IF alt.doc.follow = <<>> THEN 0 ELSE Len(alt.doc.follow) \div 2)

\* C12: a statement whose values are all written as quoted strings, each
\* followed by a terminator, parses successfully when the node array has
\* room for it, and the stored value strings are exactly the strings
\* between the quotes, the empty string and strings of delimiter characters
\* included.
C12_QuotedVerbatim ==
  (/\ proc = "running"
   /\ calls = 1
   /\ IsValueDoc
   /\ alt.doc.vals # <<>>
   /\ \A i \in 1..Len(alt.doc.vals) : alt.doc.vals[i].q # ""
   /\ DocNodes <= SKC_NODE_MAX) =>
    /\ ret = 0
    /\ skc_nodes[KeyA].child # 0
    /\ ValueList(State, skc_nodes[KeyA].child, SKC_NODE_MAX) = DocStrings

\* Both parses of a value document stayed inside their buffers.
BothInside == ~oob /\ ~alt.oob

\* C13: a statement ended by ; and the same statement ended by a newline
\* both parse or both fail, and when they parse they build trees with the
\* same (composed key, value list) pairs, whether the statement has no
\* value, a bare value, a quoted value or an array, and whatever follows.
C13_SemicolonAsNewline ==
  (/\ proc = "running"
   /\ calls = 1
   /\ IsValueDoc
   /\ alt.term = "semicolon"
   /\ BothInside) =>
    /\ (ret = 0) <=> (alt.ret = 0)
    /\ ret = 0 => KeyValues(State) = KeyValues(alt.st)

\* C14: a statement ended by a comment (# to the end of the line) and the
\* same statement ended by a newline both parse or both fail, and when they
\* parse they build trees with the same (composed key, value list) pairs,
\* whether the next line starts with } or with a new statement.
C14_CommentAsNewline ==
  (/\ proc = "running"
   /\ calls = 1
   /\ IsValueDoc
   /\ alt.term = "comment"
   /\ BothInside) =>
    /\ (ret = 0) <=> (alt.ret = 0)
    /\ ret = 0 => KeyValues(State) = KeyValues(alt.st)

\* The last skc_init call parsed a document of statements.
IsStmtsDoc == "stmts" \in DOMAIN alt

\* The key paths a document of statements names: every non-empty prefix of
\* the path of every statement.
DocKeys(doc) ==
  UNION { { SubSeq(doc[i].path, 1, k) : k \in 1..Len(doc[i].path) } :
            i \in 1..Len(doc) }

\* The nodes the tree of a document needs after merging: one per key path
\* and one per value.
NodesNeeded(doc) ==
  Cardinality(DocKeys(doc))
    + Cardinality({ i \in 1..Len(doc) : doc[i].val # <<>> })

\* C15: skc_init of a valid text returns -ENOMEM exactly when the tree of
\* the text needs more than SKC_NODE_MAX nodes after merging, it returns 0
\* for a text that needs SKC_NODE_MAX nodes or fewer, and skc_node_num is
\* never above SKC_NODE_MAX.
C15_NoMemOnlyAboveCapacity ==
  /\ skc_node_num <= SKC_NODE_MAX
  /\ (proc = "running" /\ calls = 1 /\ IsStmtsDoc) =>
       /\ (ret = -ENOMEM) <=> (NodesNeeded(alt.stmts) > SKC_NODE_MAX)
       /\ NodesNeeded(alt.stmts) <= SKC_NODE_MAX => ret = 0

\* The length of the text handed to the last skc_init call.
InLen == Len(arg_in) - 1

\* The text of the last call is one key statement (specification SpecLength).
IsSizedDoc == "pad" \in DOMAIN alt /\ alt.pad \in Pads

\* C16: a call of skc_init on an arena that is not busy returns -ERANGE
\* exactly when the buffer's length is 0 or greater than SKC_DATA_MAX - 1; a
\* call that returns -ERANGE changes neither the buffer nor the arena, and
\* the call after it is not refused with -EBUSY; and a buffer of length
\* exactly SKC_DATA_MAX - 1 that holds one key statement parses with every
\* node's data offset below SKC_DATA_MAX.
C16_LengthBounds ==
  [][(calls' = calls + 1 /\ proc' = "running") =>
       /\ skc_data = NULLP =>
            ((ret' = -ERANGE) <=> (InLen' = 0 \/ InLen' > SKC_DATA_MAX - 1))
       /\ ret' = -ERANGE => (UNCHANGED arena /\ arg_out' = arg_in')
       /\ (calls > 0 /\ ret = -ERANGE) => ret' # -EBUSY
       /\ (skc_data = NULLP /\ InLen' = SKC_DATA_MAX - 1 /\ IsSizedDoc') =>
            /\ ret' = 0
            /\ skc_node_num' > 0
            /\ \A n \in 0..(skc_node_num' - 1) :
                 skc_nodes'[n].data % SKC_VALUE < SKC_DATA_MAX]_vars

\* A buffer of length SKC_DATA_MAX - 1 with its key at the very end has been
\* parsed by the call that followed a refused one.
C16_LongestBufferParsed ==
  /\ proc = "running" /\ calls = 2 /\ skc_data = 2 /\ ret = 0
  /\ InLen = SKC_DATA_MAX - 1
  /\ skc_node_num = 1
  /\ skc_nodes[0].data = SKC_DATA_MAX - 3

\* The nodes a query may be asked to start from: none, or a key node.
QueryParents == { NULLP } \cup KeyNodes

\* The full dotted key of the node reached from parent by key.
KeyUnder(parent, key) ==
  IF parent = NULLP THEN key
  ELSE SubSeq(PathOf(parent), 1, Len(PathOf(parent)) - 1) \o << "." >> \o key

\* r is none, or the key node whose path from parent is key.
KeyNodeOrNone(parent, key, r) ==
  r = NULLP \/ (r \in KeyNodes /\ PathOf(r) = KeyUnder(parent, key))

\* C17: after a successful skc_init that added a node,
\* skc_node_find_child(parent, key) returns none or the key node that key
\* leads to from parent; it never returns a value node.
C17_FindChildReturnsKeyNode ==
  (ParsedFirst /\ NoOpenMark /\ skc_node_num > 0) =>
    \A parent \in QueryParents, key \in QueryKeys :
      Bind(skc_node_find_child(State, parent, key), LAMBDA r :
        r = KILLED \/ KeyNodeOrNone(parent, key, r))

\* What skc_node_find_value(parent, key, &vnode) has to give when the key
\* node k matches key: the string of k's first value and its node, or the
\* empty string and no node when k has no value.
ValueOfKey(k) ==
  IF ValuesOf(k) = {} THEN [found |-> TRUE, val |-> <<>>, vnode |-> NULLP]
  ELSE [found |-> TRUE, val |-> StringOf(Smallest(ValuesOf(k))),
        vnode |-> Smallest(ValuesOf(k))]

\* The key nodes whose path from parent is key.
KeysAt(parent, key) == { k \in KeyNodes : PathOf(k) = KeyUnder(parent, key) }

\* C18: after a successful skc_init, skc_node_find_value(parent, key,
\* &vnode) returns none only when no key node matches key; when one key
\* node matches, it returns the empty string and stores none if that node
\* has no value child, whether it has no child at all or only child keys,
\* and the first value's string and node if it has one.
C18_FindValueOfMatchedKey ==
  (ParsedFirst /\ NoOpenMark /\ skc_node_num > 0) =>
    \A parent \in QueryParents, key \in QueryKeys :
      Bind(skc_node_find_value(State, parent, key), LAMBDA r :
        \/ r.vnode = KILLED
        \/ /\ ~r.found => KeysAt(parent, key) = {}
           /\ \A k \in KeysAt(parent, key) :
                Cardinality(KeysAt(parent, key)) = 1 => r = ValueOfKey(k))

\* The key nodes from the top of the tree down to node n, by parent links.
RECURSIVE UpPath(_)
UpPath(n) ==
  IF skc_node_get_parent(skc_nodes, n) = NULLP THEN << n >>
  ELSE Append(UpPath(skc_node_get_parent(skc_nodes, n)), n)

\* n is in the subtree of root (root none: the whole tree).
InSubtree(root, n) ==
  root = NULLP \/ \E i \in 1..Len(UpPath(n)) : UpPath(n)[i] = root

\* The keys under root that have a value or no child.
LeafKeys(root) ==
  { n \in KeyNodes :
      /\ InSubtree(root, n)
      /\ \/ ValuesOf(n) # {}
         \/ \A c \in 0..(skc_node_num - 1) : skc_nodes[c].parent # n }

\* p comes before q in pre-order, siblings in the order they were added.
RECURSIVE PathBefore(_, _)
PathBefore(p, q) ==
  IF p = <<>> THEN q # <<>>
  ELSE IF q = <<>> THEN FALSE
  ELSE IF Head(p) # Head(q) THEN Head(p) < Head(q)
  ELSE PathBefore(Tail(p), Tail(q))

\* The nodes of S in pre-order.
RECURSIVE PreOrder(_)
PreOrder(S) ==
  IF S = {} THEN <<>>
  ELSE Bind(CHOOSE n \in S :
              \A o \in S \ { n } : PathBefore(UpPath(n), UpPath(o)),
            LAMBDA n : << n >> \o PreOrder(S \ { n }))

\* What repeated calls of skc_node_find_next_leaf(root, node) return, from
\* node on, up to the first call that returns no node; "more" when the
\* calls go on after fuel nodes.
RECURSIVE Leaves(_, _, _)
Leaves(root, node, fuel) ==
  Bind(skc_node_find_next_leaf(State, root, node), LAMBDA r :
    IF r < 0 THEN << r >>
    ELSE IF fuel = 0 THEN << r, "more" >>
    ELSE << r >> \o Leaves(root, r, fuel - 1))

\* C19: after a successful skc_init that added a node, for root a key node
\* or none, the calls of skc_node_find_next_leaf(root, node) that start
\* with node none return the keys of root's subtree that have a value or
\* no child, each once and in pre-order, and then none.
C19_LeavesInPreOrder ==
  (ParsedFirst /\ NoOpenMark /\ skc_node_num > 0) =>
    \A root \in QueryParents :
      Leaves(root, NULLP, skc_node_num) = PreOrder(LeafKeys(root)) \o << NULLP >>

\* A step of the walk that reached the end: the cursor was at a leaf, and
\* skc_node_find_next_key_value(NULL, &leaf) found no further leaf.
WalkEnded ==
  /\ proc = "running" /\ proc' = "running"
  /\ calls' = calls
  /\ UNCHANGED arena
  /\ leaf # NULLP
  /\ skc_node_find_next_key_value(State, NULLP, leaf).leaf = NULLP
  /\ leaf' = NULLP

\* C20: when a key-value walk has reached the end, a further call of
\* skc_node_find_next_key_value with the cursor as the walk left it returns
\* none again, and skc_node_find_next_leaf from the last leaf returns none
\* again.
C20_ExhaustionIsStable ==
  [][WalkEnded =>
       /\ ~skc_node_find_next_key_value(State', NULLP, leaf').found
       /\ skc_node_find_next_key_value(State', NULLP, leaf').leaf = NULLP
       /\ skc_node_find_next_leaf(State', NULLP, leaf) = NULLP]_vars

\* The prefixes the enumeration is asked for.
Prefixes ==
  { << NUL >>, << "a", NUL >>, << "b", NUL >>, << "a", "b", NUL >>,
    << "a", ".", "b", NUL >>, << "b", ".", "a", NUL >>,
    << "a", ".", "a", NUL >> }

\* key is prefix, or begins with prefix followed by a dot (both C strings).
UnderPrefix(prefix, key) ==
  \/ Len(prefix) = 1
  \/ /\ Len(key) >= Len(prefix)
     /\ SubSeq(key, 1, Len(prefix) - 1) = SubSeq(prefix, 1, Len(prefix) - 1)
     /\ key[Len(prefix)] \in { ".", NUL }

\* The composed keys of the tree.
ComposedKeys == { PathOf(k) : k \in KeyNodes }

\* The composed keys under prefix for which skc_node_find_value has a
\* result.
ValuedKeys(prefix) ==
  { key \in ComposedKeys :
      UnderPrefix(prefix, key)
        /\ skc_node_find_value(State, NULLP, key).found }

\* How often v occurs in the sequence seq.
Occurs(seq, v) == Cardinality({ i \in 1..Len(seq) : seq[i] = v })

\* How often v is the skc_node_find_value result of a key under prefix.
Expected(prefix, v) ==
  Cardinality({ key \in ValuedKeys(prefix) :
                  skc_node_find_value(State, NULLP, key).val = v })

\* Every string that is listed or expected for prefix.
Listed(prefix) ==
  { prefix_values(State, prefix)[i] :
      i \in 1..Len(prefix_values(State, prefix)) }
    \cup { skc_node_find_value(State, NULLP, key).val :
             key \in ValuedKeys(prefix) }

\* C21: after a successful skc_init that added a node, for every prefix
\* the values listed by skc_find_node(prefix) followed by
\* skc_node_for_each_key_value are, as a multiset, the
\* skc_node_find_value results of the composed keys that equal the prefix
\* or begin with the prefix and a dot; a key that only shares part of a
\* word with the prefix contributes nothing.
C21_PrefixEnumeration ==
  (ParsedFirst /\ NoOpenMark /\ skc_node_num > 0) =>
    \A prefix \in Prefixes : \A v \in Listed(prefix) :
      Occurs(prefix_values(State, prefix), v) = Expected(prefix, v)

\* The buffer sizes skc_node_compose_key is called with.
ComposeSizes == 0..4

\* The full dotted key of node n, without its terminator.
FullKey(n) == skc_node_compose_key(State, n, SKC_KEYLEN_MAX).key

\* C22: skc_node_compose_key(node, buf, size) returns an error whenever
\* the full dotted key of node and its terminator do not fit in size
\* bytes, and when it returns a length, that is the length of the full
\* key and the full key is in buf.
C22_ComposeKeyTooBig ==
  (ParsedFirst /\ NoOpenMark) =>
    \A n \in 0..(skc_node_num - 1), size \in ComposeSizes :
      Bind(skc_node_compose_key(State, n, size), LAMBDA r :
        /\ Len(FullKey(n)) + 1 > size => r.ret < 0
        /\ r.ret >= 0 => (r.key = FullKey(n) /\ r.ret = Len(FullKey(n))))

\* The text of the last call was written from bare values (specification
\* SpecEmpty).
IsValsDoc == "vals" \in DOMAIN alt

\* One of the values the text was written from is empty or blank.
HasEmptyValue == \E i \in 1..Len(alt.vals) : alt.vals[i] \in EmptyValues

\* The value nodes whose string is empty.
EmptyValueNodes ==
  { v \in 0..(skc_node_num - 1) :
      skc_node_is_value(skc_nodes, v) /\ StringOf(v) = <<>> }

\* C23: skc_init of a statement with an empty or blank bare value fails
\* with the parse error "No delimiter for value", and no value node with
\* the empty string comes from a bare value.
C23_EmptyBareValueRejected ==
  (proc = "running" /\ calls = 1 /\ IsValsDoc) =>
    /\ HasEmptyValue => (ret = -EINVAL /\ msg = "No delimiter for value")
    /\ ret = 0 => EmptyValueNodes = {}

\* C24: skc_init returns 0 and leaves the arena populated, or returns a
\* negative error code; it never returns a positive value.
C24_ZeroOrNegative ==
  (proc = "running" /\ calls > 0) =>
    /\ ret <= 0
    /\ ret = 0 => skc_data # NULLP
    /\ (ret < 0 /\ ret # -EBUSY) => skc_data = NULLP

\* The text is accepted by skc_init.
Parseable(text) == skc_init(FreshState, text \o << NUL, NUL >>).ret = 0

\* The file ends with a payload, its size and its checksum.
HasPayload(file) ==
  /\ Len(file) >= 8
  /\ u32_fits(u32_at(file, Len(file) - 8))
  /\ u32_int(u32_at(file, Len(file) - 8)) + 8 <= Len(file)
  /\ u32_at(file, Len(file) - 4)
       = u32_bytes(checksum(SubSeq(file,
                                   Len(file) - 7
                                     - u32_int(u32_at(file, Len(file) - 8)),
                                   Len(file) - 8)))

\* The file is base followed by the trailer of text and by nothing else,
\* detection finds a payload of the trailer's size, and skced -d gives
\* base back.
OneTrailer(file, base, text) ==
  /\ file = base \o BytesOf(text) \o << 0 >> \o u32_bytes(Len(text) + 1)
              \o u32_bytes(checksum(BytesOf(text) \o << 0 >>))
  /\ load_skc_from_initrd(file) = Len(text) + 1
  /\ delete_skc(file) = [ret |-> 0, file |-> base]

\* C25: skced -a with a parseable text, on an initrd file of any length
\* that carries no payload, leaves the file followed by the text, its
\* terminator, the size and the checksum; detection then reports that
\* size, skced -d restores the file, and a second skced -a leaves the file
\* with the new trailer alone.
C25_TrailerRoundTrip ==
  [][(IsInitrdRun /\ alt'.op = "append" /\ Parseable(alt'.text)) =>
       /\ ~HasPayload(initrd) => OneTrailer(initrd', initrd, alt'.text)
       /\ ~HasPayload(alt'.given) =>
            OneTrailer(initrd', alt'.given, alt'.text)]_vars


\* The sibling chains of the tree: the top-level chain from node 0 and the
\* child chain of every key that has children.
SiblingChains ==
  { ChainFrom(0, SKC_NODE_MAX) }
    \cup { ChainFrom(skc_nodes[k].child, SKC_NODE_MAX) :
             k \in { k \in KeyNodes : skc_nodes[k].child # 0 } }

\* C26: after a successful skc_init no sibling chain holds two key nodes
\* with the same word, and the tree has one key node for each key path the
\* document names: a key word that already exists under the current parent
\* is resolved to the existing node and adds no node.
C26_MergedKeysAreUnique ==
  (ParsedFirst /\ NoOpenMark /\ skc_node_num > 0) =>
    /\ \A chain \in SiblingChains : \A m, n \in chain \cap KeyNodes :
         StringOf(m) = StringOf(n) => m = n
    /\ IsStmtsDoc =>
         Cardinality(KeyNodes) = Cardinality(DocKeys(alt.stmts))

\* C27: a call of skc_init reads and writes its buffer only from the first
\* character to the terminating NUL: the scan never moves past the
\* terminator, also when the text ends with a quoted value that no
\* delimiter follows.
C27_ScanStaysInBuffer ==
  calls > 0 => ~oob

NoBlockOpen == [open |-> 0, unmatched |-> FALSE]

\* The places where the last statement of the text starts, when that
\* statement is a brace block on a one-letter key at the top level: the
\* length of the text before it.
LastBlocks ==
  { i \in 1..(Len(TextIn) - 3) :
      /\ TextIn[i + 2] = "{"
      /\ TextIn[Len(TextIn)] = "}"
      /\ Braces(SubSeq(TextIn, 1, i)) = NoBlockOpen
      /\ Braces(SubSeq(TextIn, i + 3, Len(TextIn) - 1)) = NoBlockOpen }

\* The top-level nodes of a tree.
TopLevel(st) ==
  { n \in 0..(st.num - 1) : st.nodes[n].parent = SKC_NODE_MAX }

\* The top-level key word names a node that has a following sibling.
HasNextSibling(st, word) ==
  \E k \in TopLevel(st) :
    /\ CStr(st.m, st.nodes[k].data % SKC_VALUE) = << word >>
    /\ st.nodes[k].next # 0

\* C28: when the last statement of a text is a brace block on a top-level
\* key that the text before it has defined and given a following sibling,
\* the next links of the top-level nodes are after the whole text what they
\* were after the text before the block.
C28_BlockKeepsSiblings ==
  (ParsedFirst /\ skc_node_num > 0) =>
    \A i \in LastBlocks :
      Bind(skc_init(FreshState, SubSeq(TextIn, 1, i) \o << NUL >>),
           LAMBDA r :
             (r.ret = 0 /\ HasNextSibling(r.st, TextIn[i + 1])) =>
               \A n \in TopLevel(r.st) :
                 skc_nodes[n].next = r.st.nodes[n].next)

ValueNodes == (0..(skc_node_num - 1)) \ KeyNodes

\* C29: after a successful skc_init every value node has no child and has a
\* key node for its parent, and the parser's cursor last_parent is not at a
\* value node: no key word was resolved to a value node that holds the same
\* string.
C29_ValueNodesAreTerminal ==
  (ParsedFirst /\ NoOpenMark /\ skc_node_num > 0) =>
    /\ \A v \in ValueNodes :
         /\ skc_nodes[v].child = 0
         /\ skc_nodes[v].parent \in KeyNodes
    /\ last_parent \notin ValueNodes

\* The text holds no statement: nothing but white space and semicolons.
NoStatement(t) == \A i \in 1..Len(t) : t[i] \in { ";", " ", NL, TAB }

\* C30: after a successful skc_init of a text that holds no statement the
\* tree is empty: no node is counted, the first turn of
\* skc_for_each_key_value yields no pair, and skc_node_find_child(NULL, k)
\* returns none for every k, the empty string included.
C30_EmptyTextEmptyTree ==
  (ParsedFirst /\ NoStatement(TextIn)) =>
    /\ skc_node_num = 0
    /\ ~skc_node_find_next_key_value(State, NULLP, NULLP).found
    /\ skc_node_find_next_key_value(State, NULLP, NULLP).leaf = NULLP
    /\ \A key \in QueryKeys : skc_node_find_child(State, NULLP, key) = NULLP
====
